---- MODULE Spec2Model ----
(***************************************************************************)
(* Model of the Turkish Airlines route search driver                        *)
(* (src/comprehensive_flight_search.py, class TurkishAirlinesOptimizer):    *)
(* the resumable, multi-threaded search over an ordered route list, its     *)
(* progress and results files, the per-route segment loop with early        *)
(* termination, and the flight filter and price parser it uses.             *)
(*                                                                          *)
(* Python values that travel through json.dump / json.load are kept with    *)
(* their container kind (tuple or list), because JSON turns every tuple     *)
(* into an array and json.load gives arrays back as lists.                  *)
(*                                                                          *)
(* Strings are sequences of text tokens; a city or a country code is a      *)
(* number whose order stands for the string order Python sorts by.          *)
(***************************************************************************)
EXTENDS Integers, Sequences, FiniteSets, TLC

\* ---------------------------------------------------------------- bounds
\* Length of the ordered route list handed to search_all_routes_parallel.
NumRoutes == 3
\* Stops per route (the enumerator builds six; the model keeps fewer).
NumStops == 3
\* Restarts of the process are allowed while the results file is shorter.
MaxResults == 2
\* Interruptions of the process (kills) that are followed.
MaxInterrupts == 1
\* Longest route handed to route_to_signature on its own.
MaxProbeStops == 3
\* Longest list of offers handed to the flight filter on its own.
MaxOffers == 2
\* Longest free price text handed to parse_price on its own.
MaxPriceChars == 3
\* The planner keeps this many sampled routes and makes twice as many attempts.
MaxPlannedRoutes == 3
\* Above this many combinations the planner samples instead of enumerating.
CombinationLimit == 4

\* --------------------------------------------------- constructor arguments
max_routes_to_search == NumRoutes - 1
\* The pool size main passes to the constructor.
ConfiguredWorkers == 2

\* ------------------------------------------------ route planner constants
NUM_CONTINENTS == NumStops
MAX_ROUTES == MaxPlannedRoutes
EASY_VISA_WEIGHT == 10

\* -------------------------------------------------------- Python containers
PyTuple(items) == [t |-> "tuple", v |-> items]
PyList(items) == [t |-> "list", v |-> items]

\* ------------------------------------------------------------------ routes
\* A stop as the enumerator builds it. city.str tells whether the city value
\* is a string (city[:3].upper() works) or not.
Stop(cityId, isStr, cc, continent) ==
    [city |-> [str |-> isStr, id |-> cityId], country_code |-> cc, continent |-> continent]

\* Route number i of the input list. Like consecutive routes of the
\* cross-product, the routes share every stop but the last. The city order
\* runs against the stop order, so sorting the stops changes their order.
MakeRoute(i, isStr) ==
    [k \in 1..NumStops |->
        Stop(10 * (NumStops - k + 1) + (IF k = NumStops THEN i ELSE 0), isStr, k, k)]

\* The route list in which route number bad (0: none) carries non-string cities.
MakeRoutes(bad) == [i \in 1..NumRoutes |-> MakeRoute(i, i # bad)]

\* Lexicographic order on (city, country_code, continent) triples.
TripleLess(a, b) ==
    \/ a.v[1].id < b.v[1].id
    \/ a.v[1].id = b.v[1].id /\ a.v[2] < b.v[2]
    \/ a.v[1].id = b.v[1].id /\ a.v[2] = b.v[2] /\ a.v[3] < b.v[3]

RECURSIVE InsertTriple(_, _)
InsertTriple(x, s) ==
    IF s = << >> THEN << x >>
    ELSE IF TripleLess(x, Head(s)) THEN << x >> \o s
    ELSE << Head(s) >> \o InsertTriple(x, Tail(s))

RECURSIVE SortTriples(_)
SortTriples(s) ==
    IF s = << >> THEN << >> ELSE InsertTriple(Head(s), SortTriples(Tail(s)))

\* The triples in the order of the stops, not sorted.
SignatureInOrder(route) ==
    PyTuple([k \in 1..Len(route) |->
        PyTuple(<< route[k].city, route[k].country_code, route[k].continent >>)])

\* tuple(sorted([(city, country_code, continent) for stop in route]))
route_to_signature(route) ==
    PyTuple(SortTriples([k \in 1..Len(route) |->
        PyTuple(<< route[k].city, route[k].country_code, route[k].continent >>)]))

\* airport_mapping.get(city, city[:3].upper()): the default is evaluated
\* first, so a city that is not a string raises.
CityCodeRaises(stop) == ~stop.city.str
city_to_airport_code(stop) == stop.city.id

\* ------------------------------------------------------ progress file JSON
\* json.dump of one signature: the outer tuple and every inner tuple become
\* arrays.
JsonOfSignature(sig) ==
    PyList([k \in 1..Len(sig.v) |-> PyList(sig.v[k].v)])

\* A progress record that lists one signature of the set only.
JsonOfOne(sigs) == { JsonOfSignature(CHOOSE s \in sigs : TRUE) }

\* json.dump of list(self.completed_routes)
JsonOfCompleted(sigs) == { JsonOfSignature(s) : s \in sigs }

\* tuple(sig) for one loaded array: only the outer array becomes a tuple.
TupleOfLoaded(jsig) == PyTuple(jsig.v)

\* hash() of a converted signature: a tuple hashes iff all its items do, a
\* list never does.
HashableSignature(x) ==
    /\ x.t = "tuple"
    /\ \A k \in 1..Len(x.v) : x.v[k].t = "tuple"

\* A file whose write was cut short (torn) holds no JSON document: json.load
\* raises on it.
NoProgressFile == [exists |-> FALSE, torn |-> FALSE, completed_routes |-> {}, total_completed |-> 0]
NoResultsFile == [exists |-> FALSE, torn |-> FALSE, data |-> << >>]
TornProgressFile == [exists |-> TRUE, torn |-> TRUE, completed_routes |-> {}, total_completed |-> 0]
TornResultsFile == [exists |-> TRUE, torn |-> TRUE, data |-> << >>]

\* load_existing_progress: the resolved set the constructor ends with.
\* set(tuple(sig) for sig in ...) raises TypeError on the first unhashable
\* item; the handler then resets the set.
LoadedCompleted(file) ==
    IF ~file.exists \/ file.torn THEN {}
    ELSE LET conv == { TupleOfLoaded(j) : j \in file.completed_routes }
         IN IF \A x \in conv : HashableSignature(x) THEN conv ELSE {}

\* ------------------------------------------------------------ flight offers
\* A price field: the key is absent, the value is None, or it is a string,
\* kept as its characters.
NoPrice == [kind |-> "absent", text |-> << >>]
NonePrice == [kind |-> "none", text |-> << >>]
Text(chars) == [kind |-> "str", text |-> chars]
NaPrice == Text(<< "N", "/", "A" >>)

DigitChars == << "0", "1", "2", "3", "4", "5", "6", "7", "8", "9" >>

RECURSIVE Decimal(_)
Decimal(n) ==
    IF n < 10 THEN << DigitChars[n + 1] >>
    ELSE Decimal(n \div 10) \o << DigitChars[(n % 10) + 1] >>

\* n with a comma before every group of three digits.
RECURSIVE Grouped(_)
Grouped(n) ==
    IF n < 1000 THEN Decimal(n)
    ELSE Grouped(n \div 1000)
         \o << ",", DigitChars[((n % 1000) \div 100) + 1],
                    DigitChars[((n \div 10) % 10) + 1],
                    DigitChars[(n % 10) + 1] >>

\* The price text of the results page for an amount in rupees.
Inr(n) == Text(<< "₹" >> \o Grouped(n))

\* The strings the two call sites pass to .get("price", default).
DefaultForMin == Inr(999999)
DefaultForSum == Inr(0)

\* flight.get("price", default)
GetPrice(flight, default) == IF flight.price.kind = "absent" THEN default ELSE flight.price

\* str.replace(c, "")
Remove(chars, c) == SelectSeq(chars, LAMBDA x : x # c)

\* str.strip()
RECURSIVE Strip(_)
Strip(chars) ==
    IF chars = << >> THEN << >>
    ELSE IF Head(chars) = " " THEN Strip(Tail(chars))
    ELSE IF chars[Len(chars)] = " " THEN Strip(SubSeq(chars, 1, Len(chars) - 1))
    ELSE chars

\* float() of text over digits and other characters (the alphabet here has
\* no sign, point or exponent): it takes a non-empty run of digits.
IsFloat(chars) ==
    /\ chars # << >>
    /\ \A k \in 1..Len(chars) : \E d \in 1..10 : chars[k] = DigitChars[d]

RECURSIVE FloatValue(_)
FloatValue(chars) ==
    IF chars = << >> THEN 0
    ELSE 10 * FloatValue(SubSeq(chars, 1, Len(chars) - 1))
         + ((CHOOSE d \in 1..10 : chars[Len(chars)] = DigitChars[d]) - 1)

\* The price taken as it stands, with no character removed.
ParseUncleaned(price_str) ==
    IF price_str.kind # "str" \/ price_str.text = << >> \/ price_str = NaPrice THEN 999999
    ELSE IF IsFloat(price_str.text) THEN FloatValue(price_str.text)
    ELSE 999999

\* parse_price: 999999 for a value that is not a string (falsy, or replace
\* raises inside the try), for the empty string and "N/A", and for text
\* float() rejects; the amount otherwise.
parse_price(price_str) ==
    IF price_str.kind # "str" \/ price_str.text = << >> \/ price_str = NaPrice THEN 999999
    ELSE LET cleaned == Strip(Remove(Remove(price_str.text, "₹"), ","))
         IN IF IsFloat(cleaned) THEN FloatValue(cleaned) ELSE 999999

\* s contains the token sequence pat as a contiguous run.
Contains(s, pat) ==
    \E k \in 0..(Len(s) - Len(pat)) : \A j \in 1..Len(pat) : s[k + j] = pat[j]

Lower(tok) ==
    CASE tok = "Turkish Airlines" -> "turkish airlines"
      [] tok = "Turkish" -> "turkish"
      [] tok = "THY" -> "thy"
      [] tok = "TK" -> "tk"
      [] OTHER -> tok

\* The accepted names without the IATA code.
NamesWithoutCode == {"turkish airlines", "turkish", "thy"}

turkish_airlines_names == {"turkish airlines", "turkish", "thy", "tk"}

\* "IST" in all_airports or "IST" in flight_str or "ISTANBUL" in flight_str,
\* flight_str being str(flight).upper(): every field's text.
HasIst(flight) ==
    LET all_airports == flight.route \o flight.stops
        flight_str == flight.airline \o flight.route \o flight.stops \o flight.text
    IN \/ \E k \in 1..Len(all_airports) : all_airports[k] = "IST"
       \/ \E k \in 1..Len(flight_str) : flight_str[k] \in {"IST", "Istanbul"}

\* One pass of the filter loop: does the flight reach valid_flights?
IsValidFlight(flight) ==
    /\ flight.airline # << >>
    /\ ~Contains(flight.airline, << "," >>)
    /\ ~Contains(flight.airline, << " ", "+", " " >>)
    /\ ~Contains(flight.airline, << "/" >>)
    /\ \E k \in 1..Len(flight.airline) : Lower(flight.airline[k]) \in turkish_airlines_names
    /\ HasIst(flight)

RECURSIVE filter_turkish_airlines_flights(_)
filter_turkish_airlines_flights(flights) ==
    IF flights = << >> THEN << >>
    ELSE (IF IsValidFlight(Head(flights)) THEN << Head(flights) >> ELSE << >>)
         \o filter_turkish_airlines_flights(Tail(flights))

\* The key of min(valid_flights, key=...).
MinKey(flight) == parse_price(GetPrice(flight, DefaultForMin))

\* min() returns the first item whose key is smallest.
RECURSIVE Cheapest(_)
Cheapest(flights) ==
    IF Len(flights) = 1 THEN flights[1]
    ELSE LET rest == Cheapest(Tail(flights))
         IN IF MinKey(Head(flights)) <= MinKey(rest) THEN Head(flights) ELSE rest

\* The amount added to total_cost for the chosen flight.
AddedPrice(cheapest) == parse_price(GetPrice(cheapest, DefaultForSum))

\* all_flights of one answer: top_flights and all_flights, and only when
\* both are empty every other list in the mapping.
AllFlights(flight_results) ==
    LET common == flight_results.top_flights \o flight_results.all_flights
    IN IF common # << >> THEN common ELSE flight_results.other

\* ------------------------------------------------- the segment query client
Offer(airline, price, route) ==
    [airline |-> airline, price |-> price, route |-> route, stops |-> << >>, text |-> << "1 stop" >>]

Airport(code) == IF code < 20 THEN "SYD" ELSE IF code < 30 THEN "CAI" ELSE "DEL"

\* What scraper.search can do for a query: raise, or return a mapping from
\* category to offers. Prices depend on the destination.
AnswerKinds == {"raise", "empty", "codeshare", "priced", "unpriced"}

Mapping(top, all, other) == [top_flights |-> top, all_flights |-> all, other |-> other]

FlightResults(kind, origin, dest) ==
    LET o == Airport(origin)
        d == Airport(dest)
    IN CASE kind = "empty" -> Mapping(<< >>, << >>, << >>)
         [] kind = "codeshare" ->
              Mapping(<< Offer(<< "Turkish Airlines", ",", " ", "Emirates" >>, Inr(4000), << o, "IST", d >>) >>,
                      << Offer(<< "Emirates" >>, Inr(3000), << o, "DXB", d >>) >>,
                      << >>)
         [] kind = "priced" ->
              Mapping(<< Offer(<< "TK" >>, Inr(12000 + dest), << o, "IST", d >>) >>,
                      << Offer(<< "Turkish Airlines" >>, Inr(9000 + dest), << o, "IST", d >>),
                         Offer(<< "TK" >>, Inr(7000), << o, "DXB", d >>),
                         Offer(<< "Emirates" >>, Inr(5000), << o, "IST", d >>) >>,
                      << >>)
         [] kind = "unpriced" ->
              Mapping(<< >>, << >>,
                      << Offer(<< "Turkish Airlines" >>, NoPrice, << o, "IST", d >>),
                         Offer(<< "THY" >>, NaPrice, << o, "IST", d >>) >>)

\* ------------------------------------------------------------ results file
\* list.sort(key=total_cost_inr) is stable: an item goes behind every item
\* whose cost is not larger.
RECURSIVE InsertByCost(_, _)
InsertByCost(x, s) ==
    IF s = << >> THEN << x >>
    ELSE IF x.total_cost_inr < Head(s).total_cost_inr THEN << x >> \o s
    ELSE << Head(s) >> \o InsertByCost(x, Tail(s))

\* The list written back as it was appended to.
Unsorted(s) == s

RECURSIVE SortByCost(_)
SortByCost(s) ==
    IF s = << >> THEN << >>
    ELSE InsertByCost(s[Len(s)], SortByCost(SubSeq(s, 1, Len(s) - 1)))

\* ------------------------------------------------------------------- state
VARIABLES
    routes,            \* the ordered route list given to the search
    mainPc,            \* "constructed", "running", "done" (the pool's results were
                       \* returned), "stored" (nothing was pending) or "killed"
    completed_routes,  \* self.completed_routes
    progressFile,      \* flight_search_progress.json
    resultsFile,       \* flight_search_results.json
    file_lock,         \* 0 when free, else the route whose task holds it
    completed_count,
    failed_count,
    discarded_count,
    task,              \* per route: the worker task searching it
    results,           \* the local list of search_all_routes_parallel
    returned,          \* what the last search_all_routes_parallel returned
    answers,           \* what the query client answered, per (origin, destination)
    queried,           \* the (origin, destination) queries made per route in this process
    progressAtStart,   \* content of the progress file when the process started
    resultsAtStart,    \* content of the results file when the process started
    interrupts,        \* how often the process was interrupted so far
    max_workers,       \* self.max_workers, the size of the thread pool
    probe              \* a function applied on its own: its name, input and output

vars == << routes, mainPc, completed_routes, progressFile, resultsFile, file_lock,
           completed_count, failed_count, discarded_count, task, results, returned,
           answers, queried, progressAtStart, resultsAtStart, interrupts, max_workers,
           probe >>

RouteIds == 1..NumRoutes

\* No function has been applied on its own.
NoProbe == [op |-> "none"]

\* The whole route list.
Untruncated == 1..NumRoutes

\* routes[:self.max_routes_to_search]
Truncated == { i \in RouteIds : i <= max_routes_to_search }

IdleTask ==
    [pc |-> "idle", seg |-> 1, route_flights |-> << >>, total_cost |-> 0,
     existing |-> << >>, progress_data |-> {}, outcome |-> "none", sleeps |-> 0,
     scraper |-> 0]

\* Every (origin, destination) pair some route flies.
SegmentKeys ==
    { << city_to_airport_code(MakeRoute(i, TRUE)[k]), city_to_airport_code(MakeRoute(i, TRUE)[k + 1]) >> :
        i \in RouteIds, k \in 1..(NumStops - 1) }

SearchInit ==
    /\ \E bad \in 0..max_routes_to_search : routes = MakeRoutes(bad)
    /\ mainPc = "constructed"
    /\ completed_routes = LoadedCompleted(NoProgressFile)
    /\ progressFile = NoProgressFile
    /\ resultsFile = NoResultsFile
    /\ file_lock = 0
    /\ completed_count = 0
    /\ failed_count = 0
    /\ discarded_count = 0
    /\ task = [i \in RouteIds |-> IdleTask]
    /\ results = << >>
    /\ returned = << >>
    /\ answers = [key \in SegmentKeys |-> "unasked"]
    /\ queried = [i \in RouteIds |-> << >>]
    /\ progressAtStart = {}
    /\ resultsAtStart = << >>
    /\ interrupts = 0

Init == SearchInit /\ max_workers = ConfiguredWorkers /\ probe = NoProbe

\* ------------------------------------------------ search_all_routes_parallel
is_route_completed(route) == route_to_signature(route) \in completed_routes

\* The routes classified as pending when the first route is passed over.
PendingAfterFirst == { i \in Truncated : i > 1 /\ ~is_route_completed(routes[i]) }

Pending == { i \in Truncated : ~is_route_completed(routes[i]) }

\* The file content search_all_routes_parallel reads back.
ResultsOnDisk(fallback) == IF resultsFile.exists THEN resultsFile.data ELSE fallback

\* Nothing pending, and the empty list returned without a look at the file.
SearchAllResolvedUnread ==
    /\ mainPc \in {"constructed", "done", "stored"}
    /\ Pending = {}
    /\ returned' = << >>
    /\ mainPc' = "stored"
    /\ UNCHANGED << max_workers, routes, completed_routes, progressFile, resultsFile, file_lock,
                    completed_count, failed_count, discarded_count, task, results,
                    answers, queried, progressAtStart, resultsAtStart, interrupts, probe >>

\* Nothing pending: the stored results are returned and no worker starts.
SearchAllResolved ==
    /\ mainPc \in {"constructed", "done", "stored"}
    /\ Pending = {}
    /\ returned' = ResultsOnDisk(<< >>)
    /\ mainPc' = "stored"
    /\ UNCHANGED << max_workers, routes, completed_routes, progressFile, resultsFile, file_lock,
                    completed_count, failed_count, discarded_count, task, results,
                    answers, queried, progressAtStart, resultsAtStart, interrupts, probe >>

\* Pending routes are submitted to the pool, the others are skipped.
SearchSubmit ==
    /\ mainPc \in {"constructed", "done", "stored"}
    /\ Pending # {}
    /\ task' = [i \in RouteIds |->
                  IF i \in Pending THEN [IdleTask EXCEPT !.pc = "queued"]
                  ELSE IF i \in Truncated THEN [IdleTask EXCEPT !.pc = "skipped"]
                  ELSE IdleTask]
    /\ results' = << >>
    /\ mainPc' = "running"
    /\ UNCHANGED << max_workers, routes, completed_routes, progressFile, resultsFile, file_lock,
                    completed_count, failed_count, discarded_count, returned,
                    answers, queried, progressAtStart, resultsAtStart, interrupts, probe >>

\* One client object that every call hands out.
SharedScraper(i) == 1

\* create_scraper called by the worker of task i: GoogleFlights(...) is a new
\* object on every call, named here after the task whose call made it
\* (0 stands for no client).
create_scraper(i) == i

\* Tasks a pool thread is working on.
Running == { i \in RouteIds : task[i].pc \notin {"idle", "skipped", "queued", "done"} }

\* A thread takes the oldest queued task whatever the pool is doing.
StartTaskUnbounded(i) ==
    /\ task[i].pc = "queued"
    /\ \A j \in RouteIds : j < i => task[j].pc # "queued"
    /\ task' = [task EXCEPT ![i].pc = "segment", ![i].scraper = create_scraper(i)]
    /\ UNCHANGED << max_workers, routes, mainPc, completed_routes, progressFile, resultsFile, file_lock,
                    completed_count, failed_count, discarded_count, results, returned,
                    answers, queried, progressAtStart, resultsAtStart, interrupts, probe >>

\* A pool thread takes the oldest queued task and creates its scraper.
StartTask(i) ==
    /\ task[i].pc = "queued"
    /\ Cardinality(Running) < max_workers
    /\ \A j \in RouteIds : j < i => task[j].pc # "queued"
    /\ task' = [task EXCEPT ![i].pc = "segment", ![i].scraper = create_scraper(i)]
    /\ UNCHANGED << max_workers, routes, mainPc, completed_routes, progressFile, resultsFile, file_lock,
                    completed_count, failed_count, discarded_count, results, returned,
                    answers, queried, progressAtStart, resultsAtStart, interrupts, probe >>

\* ------------------------------------------------------ search_route_flights
\* The query of segment k of a route.
SegmentKey(route, k) ==
    << city_to_airport_code(route[k]), city_to_airport_code(route[k + 1]) >>

\* Computing the airport codes of segment k raises (outside the inner try).
CodeRaises(route, k) == CityCodeRaises(route[k]) \/ CityCodeRaises(route[k + 1])

\* Discard with the early return missing: the loop goes on to the next segment.
DiscardKeepsGoing(t) ==
    IF t.seg < NumStops - 1 THEN [t EXCEPT !.seg = @ + 1]
    ELSE [t EXCEPT !.pc = "save_progress", !.outcome = "discarded"]

\* A segment without valid flights ends the route: the signature is saved and
\* None is returned.
\* A route without a valid flight that goes on to save a result.
DiscardSaved(t) == [t EXCEPT !.pc = "save_result", !.outcome = "discarded"]

Discard(t) == [t EXCEPT !.pc = "save_progress", !.outcome = "discarded"]

\* The inner handler without its save_progress call.
SearchErrorUnsaved(t) == [t EXCEPT !.pc = "returned_none", !.outcome = "errored"]

\* An exception of the query ends the route the same way (inner handler).
SearchError(t) == [t EXCEPT !.pc = "save_progress", !.outcome = "errored"]

\* Any other exception of the loop body reaches the outer handler.
ProcessingError(t) == [t EXCEPT !.pc = "save_progress", !.outcome = "failed"]

\* A segment with a valid flight whose rate-limit sleep is left out.
FoundUnslept(t, route, cheapest, price) ==
    LET k == t.seg
        entry == [segment |-> << route[k].city.id, route[k + 1].city.id >>,
                  origin |-> city_to_airport_code(route[k]),
                  destination |-> city_to_airport_code(route[k + 1]),
                  flight |-> cheapest]
    IN [t EXCEPT !.route_flights = Append(@, entry),
                 !.total_cost = @ + price,
                 !.seg = IF k = Len(route) - 1 THEN k ELSE k + 1,
                 !.pc = IF k = Len(route) - 1 THEN "save_result" ELSE "segment",
                 !.outcome = IF k = Len(route) - 1 THEN "complete" ELSE "none"]

\* A segment with a valid flight: the cheapest is recorded, its price added,
\* the thread sleeps, and the loop goes on or ends.
Found(t, route, cheapest, price) ==
    LET k == t.seg
        entry == [segment |-> << route[k].city.id, route[k + 1].city.id >>,
                  origin |-> city_to_airport_code(route[k]),
                  destination |-> city_to_airport_code(route[k + 1]),
                  flight |-> cheapest]
    IN [t EXCEPT !.route_flights = Append(@, entry),
                 !.total_cost = @ + price,
                 !.sleeps = @ + 1,
                 !.seg = IF k = Len(route) - 1 THEN k ELSE k + 1,
                 !.pc = IF k = Len(route) - 1 THEN "save_result" ELSE "segment",
                 !.outcome = IF k = Len(route) - 1 THEN "complete" ELSE "none"]

\* The result record built after the loop (thread name and timestamp left out).
Result(i) ==
    [route_index |-> i, route |-> routes[i], flights |-> task[i].route_flights,
     total_cost_inr |-> task[i].total_cost, status |-> "complete_with_all_turkish_flights"]

\* scraper.search for segment k of route i answers in the way kind names; the
\* client gives the same answer to the same query.
Query(i, kind) ==
    LET key == SegmentKey(routes[i], task[i].seg)
    IN /\ task[i].pc = "segment"
       /\ ~CodeRaises(routes[i], task[i].seg)
       /\ answers[key] \in {"unasked", kind}
       /\ answers' = [answers EXCEPT ![key] = kind]
       /\ queried' = [queried EXCEPT ![i] = Append(@, key)]

\* For every answer that is a mapping and every query: all_flights,
\* valid_flights, the cheapest valid flight (none when no flight is valid) and
\* the amount added for it, as the loop body computes them.
Answered ==
    [kind \in AnswerKinds \ {"raise"}, key \in SegmentKeys |->
        LET all_flights == AllFlights(FlightResults(kind, key[1], key[2]))
            valid_flights == filter_turkish_airlines_flights(all_flights)
            cheapest == IF valid_flights # << >> THEN << Cheapest(valid_flights) >> ELSE << >>
        IN [all_flights |-> all_flights,
            valid_flights |-> valid_flights,
            cheapest |-> cheapest,
            price |-> IF cheapest # << >> THEN AddedPrice(cheapest[1]) ELSE 0]]

AnswerFlights(i, kind) == Answered[kind, SegmentKey(routes[i], task[i].seg)].all_flights
ValidFlights(i, kind) == Answered[kind, SegmentKey(routes[i], task[i].seg)].valid_flights
CheapestFlight(i, kind) == Answered[kind, SegmentKey(routes[i], task[i].seg)].cheapest[1]
CheapestPrice(i, kind) == Answered[kind, SegmentKey(routes[i], task[i].seg)].price

SegmentCodeError(i) ==
    /\ task[i].pc = "segment"
    /\ CodeRaises(routes[i], task[i].seg)
    /\ task' = [task EXCEPT ![i] = ProcessingError(@)]
    /\ UNCHANGED << max_workers, routes, mainPc, completed_routes, progressFile, resultsFile, file_lock,
                    completed_count, failed_count, discarded_count, results, returned,
                    answers, queried, progressAtStart, resultsAtStart, interrupts, probe >>

SearchRaises(i) ==
    /\ Query(i, "raise")
    /\ task' = [task EXCEPT ![i] = SearchError(@)]
    /\ UNCHANGED << max_workers, routes, mainPc, completed_routes, progressFile, resultsFile, file_lock,
                    completed_count, failed_count, discarded_count, results, returned,
                    progressAtStart, resultsAtStart, interrupts, probe >>

SearchNoFlights(i) ==
    /\ \E kind \in AnswerKinds \ {"raise"} :
          /\ Query(i, kind)
          /\ AnswerFlights(i, kind) = << >>
    /\ task' = [task EXCEPT ![i] = Discard(@)]
    /\ UNCHANGED << max_workers, routes, mainPc, completed_routes, progressFile, resultsFile, file_lock,
                    completed_count, failed_count, discarded_count, results, returned,
                    progressAtStart, resultsAtStart, interrupts, probe >>

SearchNoValid(i) ==
    /\ \E kind \in AnswerKinds \ {"raise"} :
          /\ Query(i, kind)
          /\ AnswerFlights(i, kind) # << >>
          /\ ValidFlights(i, kind) = << >>
    /\ task' = [task EXCEPT ![i] = Discard(@)]
    /\ UNCHANGED << max_workers, routes, mainPc, completed_routes, progressFile, resultsFile, file_lock,
                    completed_count, failed_count, discarded_count, results, returned,
                    progressAtStart, resultsAtStart, interrupts, probe >>

SearchFound(i) ==
    /\ \E kind \in AnswerKinds \ {"raise"} :
          /\ Query(i, kind)
          /\ ValidFlights(i, kind) # << >>
          /\ task' = [task EXCEPT ![i] = Found(@, routes[i], CheapestFlight(i, kind), CheapestPrice(i, kind))]
    /\ UNCHANGED << max_workers, routes, mainPc, completed_routes, progressFile, resultsFile, file_lock,
                    completed_count, failed_count, discarded_count, results, returned,
                    progressAtStart, resultsAtStart, interrupts, probe >>

\* -------------------------------------------------------- the two save calls
\* The save calls without the lock.
LockIgnored == TRUE

\* with self.file_lock: the lock can be taken.
LockFree == file_lock = 0

\* save_result_to_file, first half: the lock is taken and the file is read.
SaveResultRead(i) ==
    /\ task[i].pc = "save_result"
    /\ LockFree
    /\ file_lock' = i
    /\ task' = [task EXCEPT ![i].existing = ResultsOnDisk(<< >>), ![i].pc = "save_result_write"]
    /\ UNCHANGED << max_workers, routes, mainPc, completed_routes, progressFile, resultsFile,
                    completed_count, failed_count, discarded_count, results, returned,
                    answers, queried, progressAtStart, resultsAtStart, interrupts, probe >>

\* second half: the result is appended, the list sorted and written, the lock
\* released.
SaveResultWrite(i) ==
    /\ task[i].pc = "save_result_write"
    /\ resultsFile' = [exists |-> TRUE, torn |-> FALSE, data |-> SortByCost(Append(task[i].existing, Result(i)))]
    /\ file_lock' = 0
    /\ task' = [task EXCEPT ![i].existing = << >>, ![i].pc = "save_progress"]
    /\ UNCHANGED << max_workers, routes, mainPc, completed_routes, progressFile,
                    completed_count, failed_count, discarded_count, results, returned,
                    answers, queried, progressAtStart, resultsAtStart, interrupts, probe >>

\* save_progress, first half: the lock is taken, the signature added and the
\* record to write built.
SaveProgressAdd(i) ==
    /\ task[i].pc = "save_progress"
    /\ LockFree
    /\ file_lock' = i
    /\ completed_routes' = completed_routes \cup {route_to_signature(routes[i])}
    /\ task' = [task EXCEPT ![i].progress_data = JsonOfCompleted(completed_routes'),
                            ![i].pc = "save_progress_write"]
    /\ UNCHANGED << max_workers, routes, mainPc, progressFile, resultsFile,
                    completed_count, failed_count, discarded_count, results, returned,
                    answers, queried, progressAtStart, resultsAtStart, interrupts, probe >>

\* Where the task goes after save_progress returned.
AfterSave(outcome) ==
    CASE outcome = "complete" -> "update_success"
      [] outcome = "failed" -> "update_failed"
      [] OTHER -> "returned_none"

\* The progress file is overwritten and the lock kept.
SaveProgressWriteHolding(i) ==
    /\ task[i].pc = "save_progress_write"
    /\ progressFile' = [exists |-> TRUE, torn |-> FALSE, completed_routes |-> task[i].progress_data,
                        total_completed |-> Cardinality(task[i].progress_data)]
    /\ task' = [task EXCEPT ![i].progress_data = {}, ![i].pc = AfterSave(task[i].outcome)]
    /\ UNCHANGED << max_workers, routes, mainPc, completed_routes, resultsFile, file_lock,
                    completed_count, failed_count, discarded_count, results, returned,
                    answers, queried, progressAtStart, resultsAtStart, interrupts, probe >>

\* second half: the progress file is overwritten and the lock released.
SaveProgressWrite(i) ==
    /\ task[i].pc = "save_progress_write"
    /\ progressFile' = [exists |-> TRUE, torn |-> FALSE, completed_routes |-> task[i].progress_data,
                        total_completed |-> Cardinality(task[i].progress_data)]
    /\ file_lock' = 0
    /\ task' = [task EXCEPT ![i].progress_data = {}, ![i].pc = AfterSave(task[i].outcome)]
    /\ UNCHANGED << max_workers, routes, mainPc, completed_routes, resultsFile,
                    completed_count, failed_count, discarded_count, results, returned,
                    answers, queried, progressAtStart, resultsAtStart, interrupts, probe >>

\* ----------------------------------------------- update_progress and return
\* update_progress(success=True), then the result is returned and collected
\* by the as_completed loop.
RouteComplete(i) ==
    /\ task[i].pc = "update_success"
    /\ completed_count' = completed_count + 1
    /\ results' = Append(results, Result(i))
    /\ task' = [task EXCEPT ![i].pc = "done"]
    /\ UNCHANGED << max_workers, routes, mainPc, completed_routes, progressFile, resultsFile, file_lock,
                    failed_count, discarded_count, returned,
                    answers, queried, progressAtStart, resultsAtStart, interrupts, probe >>

\* The outer handler: update_progress(success=False), then None is returned.
RouteFailed(i) ==
    /\ task[i].pc = "update_failed"
    /\ failed_count' = failed_count + 1
    /\ task' = [task EXCEPT ![i].pc = "returned_none"]
    /\ UNCHANGED << max_workers, routes, mainPc, completed_routes, progressFile, resultsFile, file_lock,
                    completed_count, discarded_count, results, returned,
                    answers, queried, progressAtStart, resultsAtStart, interrupts, probe >>

\* worker_search_route got None: update_progress(success=False, discarded=True).
WorkerGotNone(i) ==
    /\ task[i].pc = "returned_none"
    /\ discarded_count' = discarded_count + 1
    /\ task' = [task EXCEPT ![i].pc = "done"]
    /\ UNCHANGED << max_workers, routes, mainPc, completed_routes, progressFile, resultsFile, file_lock,
                    completed_count, failed_count, results, returned,
                    answers, queried, progressAtStart, resultsAtStart, interrupts, probe >>

\* All futures are done, and the list collected from them is returned.
FinishRunLocal ==
    /\ mainPc = "running"
    /\ \A i \in RouteIds : task[i].pc \in {"idle", "skipped", "done"}
    /\ ~resultsFile.torn
    /\ returned' = results
    /\ mainPc' = "done"
    /\ UNCHANGED << max_workers, routes, completed_routes, progressFile, resultsFile, file_lock,
                    completed_count, failed_count, discarded_count, task, results,
                    answers, queried, progressAtStart, resultsAtStart, interrupts, probe >>

\* All futures are done: the results file is read back and returned.
FinishRun ==
    /\ mainPc = "running"
    /\ \A i \in RouteIds : task[i].pc \in {"idle", "skipped", "done"}
    /\ ~resultsFile.torn
    /\ returned' = ResultsOnDisk(results)
    /\ mainPc' = "done"
    /\ UNCHANGED << max_workers, routes, completed_routes, progressFile, resultsFile, file_lock,
                    completed_count, failed_count, discarded_count, task, results,
                    answers, queried, progressAtStart, resultsAtStart, interrupts, probe >>

\* ----------------------------------------------------------------- restart
\* The process ends and is started again on the same route list: a new
\* object, whose constructor calls load_existing_progress.
Restart ==
    /\ mainPc \in {"done", "stored", "killed"}
    /\ Len(resultsFile.data) < MaxResults
    /\ mainPc' = "constructed"
    /\ completed_routes' = LoadedCompleted(progressFile)
    /\ file_lock' = 0
    /\ completed_count' = 0
    /\ failed_count' = 0
    /\ discarded_count' = 0
    /\ task' = [i \in RouteIds |-> IdleTask]
    /\ results' = << >>
    /\ returned' = << >>
    /\ queried' = [i \in RouteIds |-> << >>]
    /\ progressAtStart' = progressFile.completed_routes
    /\ resultsAtStart' = resultsFile.data
    /\ UNCHANGED << max_workers, routes, progressFile, resultsFile, answers, interrupts, probe >>

Next ==
    \/ SearchAllResolved
    \/ SearchSubmit
    \/ \E i \in RouteIds : StartTask(i)
    \/ \E i \in RouteIds : SegmentCodeError(i)
    \/ \E i \in RouteIds : SearchRaises(i)
    \/ \E i \in RouteIds : SearchNoFlights(i)
    \/ \E i \in RouteIds : SearchNoValid(i)
    \/ \E i \in RouteIds : SearchFound(i)
    \/ \E i \in RouteIds : SaveResultRead(i)
    \/ \E i \in RouteIds : SaveResultWrite(i)
    \/ \E i \in RouteIds : SaveProgressAdd(i)
    \/ \E i \in RouteIds : SaveProgressWrite(i)
    \/ \E i \in RouteIds : RouteComplete(i)
    \/ \E i \in RouteIds : RouteFailed(i)
    \/ \E i \in RouteIds : WorkerGotNone(i)
    \/ FinishRun
    \/ Restart

Spec == Init /\ [][Next]_vars

\* ------------------------------------------------------------ interruption
\* The process is killed while a search runs. Memory is lost with it (the
\* task records stay as they were, and nothing but Restart reads them); the
\* files keep what was written.
Killed ==
    /\ mainPc = "running"
    /\ interrupts < MaxInterrupts
    /\ interrupts' = interrupts + 1
    /\ mainPc' = "killed"
    /\ UNCHANGED << max_workers, routes, completed_routes, file_lock, completed_count, failed_count,
                    discarded_count, task, results, returned, answers, queried,
                    progressAtStart, resultsAtStart, probe >>

\* Killed outside the write of a file.
InterruptBetweenWrites ==
    /\ Killed
    /\ UNCHANGED << progressFile, resultsFile >>

\* Killed inside save_progress, after open(progress_file, 'w') emptied the
\* file and before json.dump and the close wrote all of it.
InterruptProgressWrite ==
    /\ \E i \in RouteIds : task[i].pc = "save_progress_write"
    /\ Killed
    /\ progressFile' = TornProgressFile
    /\ UNCHANGED resultsFile

\* Killed inside save_result_to_file, after open(results_file, 'w').
InterruptResultWrite ==
    /\ \E i \in RouteIds : task[i].pc = "save_result_write"
    /\ Killed
    /\ resultsFile' = TornResultsFile
    /\ UNCHANGED progressFile

CrashNext ==
    \/ Next
    \/ InterruptBetweenWrites
    \/ InterruptProgressWrite
    \/ InterruptResultWrite

CrashSpec == Init /\ [][CrashNext]_vars

\* --------------------------------------------- functions applied on their own
\* The state of a search, which no function applied on its own touches.
searchVars ==
    << routes, mainPc, completed_routes, progressFile, resultsFile, file_lock,
       completed_count, failed_count, discarded_count, task, results, returned,
       answers, queried, progressAtStart, resultsAtStart, interrupts, max_workers >>

\* An input waiting for its function, and the output put next to it.
Input(op, arg) == [op |-> op, done |-> FALSE, arg |-> arg, out |-> << >>]
Output(p, out) == [p EXCEPT !.done = TRUE, !.out = out]

\* Stops for route_to_signature: two share the city and differ in the
\* country code, so the order of the triples goes past the first item.
ProbeStopSet ==
    { Stop(1, TRUE, 1, 1), Stop(1, TRUE, 2, 1), Stop(2, TRUE, 1, 2) }

ProbeRoutes ==
    UNION { [1..n -> ProbeStopSet] : n \in 0..MaxProbeStops }

SignatureInputs ==
    { Input("route_to_signature", [route |-> r, other |-> o]) : r \in ProbeRoutes, o \in ProbeRoutes }

\* route_to_signature of a route and of another one.
ApplySignature ==
    /\ probe.op = "route_to_signature" /\ ~probe.done
    /\ probe' = Output(probe, << route_to_signature(probe.arg.route),
                                 route_to_signature(probe.arg.other) >>)
    /\ UNCHANGED searchVars

\* One step of the pool thread that works on route i.
TaskStep(i) ==
    \/ StartTask(i)
    \/ SegmentCodeError(i)
    \/ SearchRaises(i)
    \/ SearchNoFlights(i)
    \/ SearchNoValid(i)
    \/ SearchFound(i)
    \/ SaveResultRead(i)
    \/ SaveResultWrite(i)
    \/ SaveProgressAdd(i)
    \/ SaveProgressWrite(i)
    \/ RouteComplete(i)
    \/ RouteFailed(i)
    \/ WorkerGotNone(i)

\* The thread working on route i is not held up: a queued task needs a free
\* pool thread and to be the oldest in the queue, a task entering a save call
\* needs the file lock, every other point of a started task runs on.
CanStep(i) ==
    CASE task[i].pc \in {"idle", "skipped", "done"} -> FALSE
      [] task[i].pc = "queued" ->
            /\ Cardinality(Running) < max_workers
            /\ \A j \in RouteIds : j < i => task[j].pc # "queued"
      [] task[i].pc \in {"save_result", "save_progress"} -> LockFree
      [] OTHER -> TRUE

\* CanStep is exactly the enabling condition of TaskStep.
CanStepIsEnabled == \A i \in RouteIds : CanStep(i) <=> ENABLED TaskStep(i)

\* Every pool thread that can take a step takes one, a search that can start
\* or end does, and a process that has ended is started again.
FairSpec ==
    /\ Spec
    /\ WF_vars(SearchSubmit)
    /\ \A i \in RouteIds : WF_vars(TaskStep(i))
    /\ WF_vars(FinishRun)
    /\ WF_vars(Restart)

\* One search from construction to its return.
RunNext ==
    \/ SearchSubmit
    \/ \E i \in RouteIds : TaskStep(i)
    \/ FinishRun

\* One search of an object constructed with any pool size up to the
\* configured one.
PoolInit ==
    /\ SearchInit
    /\ max_workers \in 1..ConfiguredWorkers
    /\ probe = NoProbe

PoolSpec == PoolInit /\ [][RunNext]_vars

\* Some step of the search can be taken: the pending routes can be
\* submitted, a pool thread can step, or the pool is done and the file read.
CanRun ==
    \/ mainPc \in {"constructed", "done", "stored"} /\ Pending # {}
    \/ \E i \in RouteIds : CanStep(i)
    \/ /\ mainPc = "running"
       /\ \A i \in RouteIds : task[i].pc \in {"idle", "skipped", "done"}
       /\ ~resultsFile.torn

\* CanRun is exactly the enabling condition of RunNext.
CanRunIsEnabled == CanRun <=> ENABLED RunNext

\* The process keeps running while a step can be taken: WF_vars(RunNext),
\* with the enabling condition written as the state predicate CanRun.
RunFairness == []<>(~CanRun) \/ []<><<RunNext>>_vars

FairRunSpec == Init /\ [][RunNext]_vars /\ RunFairness

\* ------------------------------------------------------ failing file calls
\* What a failed write leaves: the file as it was (open raised), or a cut
\* one (json.dump raised after open(path, 'w') emptied the file).
FailedResultWrite == { resultsFile, TornResultsFile }
FailedProgressWrite == { progressFile, TornProgressFile }

\* save_result_to_file, reading fails: the inner handler takes the empty
\* list for the existing results and the call goes on.
SaveResultReadFails(i) ==
    /\ task[i].pc = "save_result"
    /\ resultsFile.exists
    /\ LockFree
    /\ file_lock' = i
    /\ task' = [task EXCEPT ![i].existing = << >>, ![i].pc = "save_result_write"]
    /\ UNCHANGED << max_workers, routes, mainPc, completed_routes, progressFile, resultsFile,
                    completed_count, failed_count, discarded_count, results, returned,
                    answers, queried, progressAtStart, resultsAtStart, interrupts, probe >>

\* save_result_to_file, writing fails: the handler prints, the lock is
\* released and the call returns.
SaveResultWriteFails(i) ==
    /\ task[i].pc = "save_result_write"
    /\ resultsFile' \in FailedResultWrite
    /\ file_lock' = 0
    /\ task' = [task EXCEPT ![i].existing = << >>, ![i].pc = "save_progress"]
    /\ UNCHANGED << max_workers, routes, mainPc, completed_routes, progressFile,
                    completed_count, failed_count, discarded_count, results, returned,
                    answers, queried, progressAtStart, resultsAtStart, interrupts, probe >>

\* A failed write of the progress file after which the lock is kept.
SaveProgressWriteFailsHolding(i) ==
    /\ task[i].pc = "save_progress_write"
    /\ progressFile' \in FailedProgressWrite
    /\ task' = [task EXCEPT ![i].progress_data = {}, ![i].pc = AfterSave(task[i].outcome)]
    /\ UNCHANGED << max_workers, routes, mainPc, completed_routes, resultsFile, file_lock,
                    completed_count, failed_count, discarded_count, results, returned,
                    answers, queried, progressAtStart, resultsAtStart, interrupts, probe >>

\* save_progress, writing fails: the signature was added before, the
\* handler prints, the lock is released and the call returns.
SaveProgressWriteFails(i) ==
    /\ task[i].pc = "save_progress_write"
    /\ progressFile' \in FailedProgressWrite
    /\ file_lock' = 0
    /\ task' = [task EXCEPT ![i].progress_data = {}, ![i].pc = AfterSave(task[i].outcome)]
    /\ UNCHANGED << max_workers, routes, mainPc, completed_routes, resultsFile,
                    completed_count, failed_count, discarded_count, results, returned,
                    answers, queried, progressAtStart, resultsAtStart, interrupts, probe >>

\* One search in which the file calls of the store may fail.
FaultNext ==
    \/ RunNext
    \/ \E i \in RouteIds : SaveResultReadFails(i)
    \/ \E i \in RouteIds : SaveResultWriteFails(i)
    \/ \E i \in RouteIds : SaveProgressWriteFails(i)

\* The route list is well formed, or its first route is not.
FaultInit == Init /\ routes \in { MakeRoutes(0), MakeRoutes(1) }

FaultSpec == FaultInit /\ [][FaultNext]_vars

\* ------------------------------------------------------- derived quantities
Signature(i) == route_to_signature(routes[i])
JsonSignature(i) == JsonOfSignature(Signature(i))

Finished(i) == task[i].pc = "done"
AllFinished == \A i \in RouteIds : task[i].pc \in {"idle", "skipped", "done"}

\* Routes submitted to the pool by the search of this process.
Dispatched == { i \in RouteIds : task[i].pc \notin {"idle", "skipped"} }

\* Positions of the records of route i in a results list.
RecordsOf(i, data) == { k \in 1..Len(data) : data[k].route_index = i }

\* The query client's answer to segment k of route i, "unasked" if none yet.
AnswerTo(i, k) == answers[SegmentKey(routes[i], k)]

\* An answer that leaves a valid flight, and one that leaves none.
Usable(i, k) ==
    /\ AnswerTo(i, k) \notin {"unasked", "raise"}
    /\ Answered[AnswerTo(i, k), SegmentKey(routes[i], k)].valid_flights # << >>

Unusable(i, k) ==
    /\ AnswerTo(i, k) \notin {"unasked", "raise"}
    /\ Answered[AnswerTo(i, k), SegmentKey(routes[i], k)].valid_flights = << >>

WellFormed(i) == \A k \in 1..NumStops : routes[i][k].city.str

\* The stops of a route as a set of (city, country_code, continent) triples.
TripleSet(route) ==
    { << route[k].city, route[k].country_code, route[k].continent >> : k \in 1..Len(route) }

\* other holds the stops of route in some order.
IsPermutation(route, other) ==
    /\ Len(route) = Len(other)
    /\ \A s \in ProbeStopSet :
          Cardinality({ k \in 1..Len(route) : route[k] = s })
            = Cardinality({ k \in 1..Len(other) : other[k] = s })

Reversed(route) == [k \in 1..Len(route) |-> route[Len(route) + 1 - k]]

\* What the loop body does with the offers of one answer (lines 340-362):
\* the valid flights, the cheapest of them when there is one, and the amount
\* added to total_cost for it.
SelectBest(all_flights) ==
    LET valid_flights == filter_turkish_airlines_flights(all_flights)
        cheapest == IF valid_flights # << >> THEN << Cheapest(valid_flights) >> ELSE << >>
    IN [valid_flights |-> valid_flights,
        cheapest |-> cheapest,
        price |-> IF cheapest # << >> THEN AddedPrice(cheapest[1]) ELSE 0]

\* Offers for the filter: every airline text with either route and each
\* price, and one that names Istanbul in another field only.
ProbeAirlines ==
    { << >>, << "TK" >>, << "Turkish Airlines" >>, << "Emirates" >>,
      << "Turkish Airlines", ",", " ", "Emirates" >>,
      << "Turkish Airlines", "+", "Emirates" >>,
      << "Turkish Airlines", " ", "+", " ", "Emirates" >>,
      << "Turkish Airlines", "/", "Emirates" >> }

ProbeAirportLists == { << "DEL", "IST", "JFK" >>, << "DEL", "DXB", "JFK" >> }

ProbePrices == { Inr(4500), Inr(5200), NoPrice }

ProbeOffers ==
    { Offer(a, p, r) : a \in ProbeAirlines, p \in ProbePrices, r \in ProbeAirportLists }
    \cup { [Offer(<< "TK" >>, Inr(4500), << "DEL", "DXB", "JFK" >>)
              EXCEPT !.text = << "1 stop", "Istanbul" >>] }

SelectInputs ==
    { Input("select", fs) : fs \in UNION { [1..n -> ProbeOffers] : n \in 0..MaxOffers } }

\* The filter and the choice of the cheapest applied to a list of offers.
ApplySelect ==
    /\ probe.op = "select" /\ ~probe.done
    /\ probe' = Output(probe, SelectBest(probe.arg))
    /\ UNCHANGED searchVars

\* Offers that all pass the filter, for min(): amounts below, at and above
\* 999999, a missing price and one that does not parse.
MinPrices == { Inr(4500), Inr(999999), Inr(1000000), NoPrice, NaPrice }

MinOffers == { Offer(<< "TK" >>, p, << "DEL", "IST", "JFK" >>) : p \in MinPrices }

MinInputs ==
    { Input("select", fs) : fs \in UNION { [1..n -> MinOffers] : n \in 1..MaxOffers } }

\* Prices for parse_price: None, every short text over a few characters,
\* "N/A", and the page's text for some amounts.
PriceAlphabet == { "₹", ",", " ", "4", "5", "x" }

PriceAmounts == { 0, 45, 999, 4500, 45230, 999999, 1234567 }

ProbePriceValues ==
    { NonePrice, NaPrice }
    \cup { Text(chars) : chars \in UNION { [1..n -> PriceAlphabet] : n \in 0..MaxPriceChars } }
    \cup { Inr(n) : n \in PriceAmounts }

ParsePriceInputs == { Input("parse_price", v) : v \in ProbePriceValues }

ApplyParsePrice ==
    /\ probe.op = "parse_price" /\ ~probe.done
    /\ probe' = Output(probe, parse_price(probe.arg))
    /\ UNCHANGED searchVars

\* Offers for the categories of one answer: two valid ones with different
\* prices and one the filter rejects.
CategoryOffers ==
    { Offer(<< "TK" >>, Inr(4500), << "DEL", "IST", "JFK" >>),
      Offer(<< "Turkish Airlines" >>, Inr(5200), << "DEL", "IST", "JFK" >>),
      Offer(<< "Emirates" >>, Inr(3000), << "DEL", "DXB", "JFK" >>) }

\* Answers of scraper.search with at most one offer in top_flights, in
\* all_flights and in a third category.
SegmentInputs ==
    LET lists == UNION { [1..n -> CategoryOffers] : n \in 0..1 }
    IN { Input("segment", Mapping(top, all, other)) : top \in lists, all \in lists, other \in lists }

\* One pass of the loop body over an answer: the offers gathered from its
\* categories, the filter and the choice of the cheapest.
ApplySegment ==
    /\ probe.op = "segment" /\ ~probe.done
    /\ probe' = Output(probe, SelectBest(AllFlights(probe.arg)))
    /\ UNCHANGED searchVars

\* ------------------------------------------------------------ ProbeSpec
ProbeInputs ==
    SignatureInputs \cup SelectInputs \cup MinInputs \cup ParsePriceInputs \cup SegmentInputs

ProbeInit ==
    /\ SearchInit
    /\ max_workers = ConfiguredWorkers
    /\ routes = MakeRoutes(0)
    /\ probe \in ProbeInputs

ProbeNext ==
    \/ ApplySignature
    \/ ApplySelect
    \/ ApplyParsePrice
    \/ ApplySegment

ProbeSpec == ProbeInit /\ [][ProbeNext]_vars

\* ------------------------------------------------------------ route_planner
\* The reference data of utils.py, per continent: the eligible countries in
\* list order, each easy-visa or not, with a city list or without one.
Country(code, easy, listed, cities) ==
    [country_code |-> code, easy |-> easy, listed |-> listed, cities |-> cities]

\* The keys of get_eligible_country_list (the required continents), in the
\* order of the mapping.
EligibleContinents == [k \in 1..NUM_CONTINENTS |-> k]

\* REQUIRED_CONTINENTS names the same continents in another order.
REQUIRED_CONTINENTS == [k \in 1..NUM_CONTINENTS |-> NUM_CONTINENTS + 1 - k]

\* What a continent's entries can look like: its only country is not
\* easy-visa, or has no city list, or has one city, or two cities listed
\* against their alphabetical order, or two countries listed against the
\* order of their codes, or a country of its own listed before one that lies
\* on several continents.
CountryLists(c) ==
    { << Country(10 * c + 1, FALSE, TRUE, << 10 * c + 1 >>) >>,
      << Country(10 * c + 1, TRUE, FALSE, << >>) >>,
      << Country(10 * c + 1, TRUE, TRUE, << 10 * c + 1 >>) >>,
      << Country(10 * c + 1, TRUE, TRUE, << 10 * c + 2, 10 * c + 1 >>) >>,
      << Country(10 * c + 2, TRUE, TRUE, << 10 * c + 1 >>),
         Country(10 * c + 1, TRUE, TRUE, << 10 * c + 2 >>) >>,
      << Country(10 * c + 1, TRUE, TRUE, << 10 * c + 1 >>),
         Country(99, TRUE, TRUE, << 10 * c + 3 >>) >> }

ReferenceData == { d \in [1..NUM_CONTINENTS -> UNION { CountryLists(c) : c \in 1..NUM_CONTINENTS }] :
                     \A c \in 1..NUM_CONTINENTS : d[c] \in CountryLists(c) }

\* The city entries of the countries of one continent.
RECURSIVE CityEntries(_)
CityEntries(countries) ==
    IF countries = << >> THEN << >>
    ELSE LET country == Head(countries)
         IN (IF country.easy /\ country.listed
             THEN [k \in 1..Len(country.cities) |->
                     [country_code |-> country.country_code, city |-> country.cities[k],
                      easy_visa |-> TRUE]]
             ELSE << >>)
            \o CityEntries(Tail(countries))

\* get_continent_city_mapping: every continent of the eligible list gets a
\* key, with an empty list when no country of it passes.
get_continent_city_mapping(data) ==
    [c \in 1..NUM_CONTINENTS |-> CityEntries(data[c])]

PlanStop(continent, city_info) ==
    [continent |-> continent, country_code |-> city_info.country_code,
     city |-> city_info.city, easy_visa |-> city_info.easy_visa]

calculate_route_score(route) ==
    LET easy_visa_count == Cardinality({ k \in 1..Len(route) : route[k].easy_visa })
        countries == { route[k].country_code : k \in 1..Len(route) }
    IN easy_visa_count * EASY_VISA_WEIGHT
       + (IF Cardinality(countries) < Len(route) THEN 5 ELSE 0)

\* A sort that puts a route before the routes of equal score.
RECURSIVE InsertBeforeEqual(_, _)
InsertBeforeEqual(sorted, route) ==
    IF sorted = << >> THEN << route >>
    ELSE IF calculate_route_score(Head(sorted)) > calculate_route_score(route)
         THEN << Head(sorted) >> \o InsertBeforeEqual(Tail(sorted), route)
         ELSE << route >> \o sorted

\* list.sort(key=calculate_route_score, reverse=True): routes of equal score
\* keep their order.
RECURSIVE InsertByScore(_, _)
InsertByScore(sorted, route) ==
    IF sorted = << >> THEN << route >>
    ELSE IF calculate_route_score(Head(sorted)) >= calculate_route_score(route)
         THEN << Head(sorted) >> \o InsertByScore(Tail(sorted), route)
         ELSE << route >> \o sorted

RECURSIVE SortByScore(_)
SortByScore(unsorted) ==
    IF unsorted = << >> THEN << >>
    ELSE InsertByScore(SortByScore(SubSeq(unsorted, 1, Len(unsorted) - 1)),
                       unsorted[Len(unsorted)])

\* The outcome of a call: an exception, or the routes; with the state the
\* module-level random generator is left in.
Raised(rng) == [raised |-> TRUE, routes |-> << >>, rng |-> rng]
Returned(all_routes, rng) == [raised |-> FALSE, routes |-> all_routes, rng |-> rng]

\* The random module: seed(a) sets the generator state from a alone, and
\* every draw moves the state on.
SeedIgnored(state, a) == state

Seed(state, a) == a % 11

Draw(state) == (state + 3) % 11

\* random.shuffle: for i from the last index down, swap item i with item
\* randbelow(i + 1).
RECURSIVE ShuffleFrom(_, _, _)
ShuffleFrom(x, i, state) ==
    IF i < 2 THEN [list |-> x, state |-> state]
    ELSE LET drawn == Draw(state)
             j == (drawn % i) + 1
         IN ShuffleFrom([x EXCEPT ![i] = x[j], ![j] = x[i]], i - 1, drawn)

Shuffle(x, state) == ShuffleFrom(x, Len(x), state)

\* cities.sort(key=lambda x: x[key]) for the keys 'city' and 'country_code':
\* items of equal key keep their order.
SortKey(x, key) == IF key = "city" THEN x.city ELSE x.country_code

RECURSIVE InsertByKey(_, _, _)
InsertByKey(sorted, item, key) ==
    IF sorted = << >> THEN << item >>
    ELSE IF SortKey(Head(sorted), key) <= SortKey(item, key)
         THEN << Head(sorted) >> \o InsertByKey(Tail(sorted), item, key)
         ELSE << item >> \o sorted

RECURSIVE SortByKey(_, _)
SortByKey(unsorted, key) ==
    IF unsorted = << >> THEN << >>
    ELSE InsertByKey(SortByKey(SubSeq(unsorted, 1, Len(unsorted) - 1), key),
                     unsorted[Len(unsorted)], key)

\* The city an attempt selects from the non-empty list of a continent.
SelectCity(cities, attempt) ==
    LET selection_strategy == attempt % 4
        half == Len(cities) \div 2
    IN CASE selection_strategy = 0 -> cities[(attempt % Len(cities)) + 1]
         [] selection_strategy = 1 ->
              SortByKey(cities, "city")[(attempt % Len(cities)) + 1]
         [] selection_strategy = 2 ->
              SortByKey(cities, "country_code")[(attempt % Len(cities)) + 1]
         [] OTHER ->
              IF Len(cities) > 1
              THEN IF attempt % 2 = 0 /\ half > 0
                   THEN cities[((attempt \div 2) % half) + 1]
                   ELSE LET available_cities ==
                                IF half > 0 THEN SubSeq(cities, half + 1, Len(cities))
                                ELSE cities
                        IN available_cities[(attempt % Len(available_cities)) + 1]
              ELSE cities[1]

\* The route of one attempt: the continents in shuffled order, one stop for
\* each continent that has a city.
RECURSIVE AttemptRoute(_, _, _)
AttemptRoute(continent_cities, continents, attempt) ==
    IF continents = << >> THEN << >>
    ELSE LET continent == Head(continents)
             cities == continent_cities[continent]
         IN (IF cities = << >> THEN << >>
             ELSE << PlanStop(continent, SelectCity(cities, attempt)) >>)
            \o AttemptRoute(continent_cities, Tail(continents), attempt)

\* A route that is kept whatever its length.
KeepAnyRoute(route) == TRUE

\* Only keep routes that visit all the continents.
KeepRoute(route) == Len(route) = NUM_CONTINENTS

\* The attempts from one on: all_routes, and the generator state at the end.
RECURSIVE Attempts(_, _, _, _)
Attempts(continent_cities, available_continents, attempt, state) ==
    IF attempt >= MAX_ROUTES * 2 THEN [all_routes |-> << >>, state |-> state]
    ELSE LET shuffled == Shuffle(available_continents, Seed(state, attempt))
             route == AttemptRoute(continent_cities,
                                   SubSeq(shuffled.list, 1, NUM_CONTINENTS), attempt)
             later == Attempts(continent_cities, available_continents, attempt + 1,
                               shuffled.state)
         IN [all_routes |-> (IF KeepRoute(route) THEN << route >> ELSE << >>)
                              \o later.all_routes,
             state |-> later.state]

\* The signature used for deduplication: the sorted stops, here as a set.
RouteSig(route) ==
    { << route[k].continent, route[k].city, route[k].country_code >> : k \in 1..Len(route) }

\* All routes of the attempts, repeated ones too.
KeepDuplicates(all_routes, seen_routes) == all_routes

\* unique_routes: the first route of every signature, in order.
RECURSIVE Unique(_, _)
Unique(all_routes, seen_routes) ==
    IF all_routes = << >> THEN << >>
    ELSE LET route_sig == RouteSig(Head(all_routes))
         IN IF route_sig \in seen_routes THEN Unique(Tail(all_routes), seen_routes)
            ELSE << Head(all_routes) >>
                 \o Unique(Tail(all_routes), seen_routes \cup { route_sig })

FirstRoutes(unique_routes) ==
    SubSeq(unique_routes, 1, IF Len(unique_routes) < MAX_ROUTES THEN Len(unique_routes)
                             ELSE MAX_ROUTES)

generate_optimal_routes(data, rng) ==
    LET continent_cities == get_continent_city_mapping(data)
        available_continents == EligibleContinents
    IN IF Len(available_continents) < NUM_CONTINENTS THEN Raised(rng)
       ELSE LET attempts == Attempts(continent_cities, available_continents, 0, rng)
            IN Returned(FirstRoutes(SortByScore(Unique(attempts.all_routes, {}))),
                        attempts.state)

\* itertools.product over the city lists from continent k on, the first
\* list varying slowest.
RECURSIVE ProductFrom(_, _, _)
ProductFrom(continent_cities, continent_order, k) ==
    IF k > Len(continent_order) THEN << << >> >>
    ELSE LET cities == continent_cities[continent_order[k]]
             rest == ProductFrom(continent_cities, continent_order, k + 1)
         IN [n \in 1..(Len(cities) * Len(rest)) |->
               << PlanStop(continent_order[k], cities[((n - 1) \div Len(rest)) + 1]) >>
               \o rest[((n - 1) % Len(rest)) + 1]]

RECURSIVE TotalCombinations(_, _)
TotalCombinations(continent_cities, k) ==
    IF k > NUM_CONTINENTS THEN 1
    ELSE Len(continent_cities[k]) * TotalCombinations(continent_cities, k + 1)

generate_all_possible_combinations(data, rng) ==
    LET continent_cities == get_continent_city_mapping(data)
        available_continents == EligibleContinents
    IN IF Len(available_continents) < NUM_CONTINENTS THEN Raised(rng)
       ELSE IF TotalCombinations(continent_cities, 1) > CombinationLimit
            THEN generate_optimal_routes(data, rng)
            ELSE Returned(SortByScore(ProductFrom(continent_cities, available_continents, 1)),
                          rng)

\* The planner called twice in one process on the same reference data.
PlanInputs ==
    { Input(op, [data |-> d, rng |-> r]) :
        op \in {"generate_all_possible_combinations", "generate_optimal_routes"},
        d \in ReferenceData, r \in 0..1 }

\* The generator state a call starts from.
RngNow == IF probe.out = << >> THEN probe.arg.rng ELSE probe.out[Len(probe.out)].rng

CallAllCombinations ==
    /\ probe.op = "generate_all_possible_combinations" /\ ~probe.done
    /\ probe' = [probe EXCEPT
                   !.out = Append(@, generate_all_possible_combinations(probe.arg.data, RngNow)),
                   !.done = (Len(probe.out) = 1)]
    /\ UNCHANGED searchVars

CallOptimalRoutes ==
    /\ probe.op = "generate_optimal_routes" /\ ~probe.done
    /\ probe' = [probe EXCEPT
                   !.out = Append(@, generate_optimal_routes(probe.arg.data, RngNow)),
                   !.done = (Len(probe.out) = 1)]
    /\ UNCHANGED searchVars

PlanInit ==
    /\ SearchInit
    /\ max_workers = ConfiguredWorkers
    /\ routes = MakeRoutes(0)
    /\ probe \in PlanInputs

PlanNext == CallAllCombinations \/ CallOptimalRoutes

PlanSpec == PlanInit /\ [][PlanNext]_vars

\* ------------------------------------------------------------------ claims

\* The read-back at the end of a search never meets a torn results file.
ReadBackReadable ==
    (mainPc = "running" /\ AllFinished) => ~resultsFile.torn

\* C1 (as claimed): a route whose signature was in the progress file when the
\* process started is skipped by the search: it is never submitted to the
\* pool and no segment of it is queried.
ResumeSkipsResolved ==
    \A i \in RouteIds :
        JsonSignature(i) \in progressAtStart =>
            /\ task[i].pc \in {"idle", "skipped"}
            /\ queried[i] = << >>

\* C2 (as claimed): when every route of the searched prefix was resolved by
\* the earlier run, the next run makes no query, resolves no route and leaves
\* the results file with the same records in the same order.
SecondRunIdempotent ==
    (\A i \in Truncated : JsonSignature(i) \in progressAtStart) =>
        /\ \A i \in RouteIds : queried[i] = << >>
        /\ completed_count + discarded_count + failed_count = 0
        /\ resultsFile.data = resultsAtStart

\* C3 (as claimed): when the process is run again and again, every route of
\* the list ends up in the persisted resolved set.
ConvergesToFullCoverage ==
    []<>(mainPc = "constructed") =>
    <>(\A i \in RouteIds : JsonSignature(i) \in progressFile.completed_routes)

\* C4 (as claimed): no write and no restart removes a signature from the
\* progress file.
ProgressFileMonotonic ==
    [][progressFile.completed_routes \subseteq progressFile'.completed_routes]_vars

\* C5: a route whose first segment without a valid flight is segment k makes
\* never more than k queries; once its task is over it has made exactly the
\* queries of segments 1..k in order, it is discarded, and the results file
\* holds no record of it that was not there at the start.
EarlyTermination ==
    \A i \in RouteIds : \A k \in 1..(NumStops - 1) :
        (/\ WellFormed(i)
         /\ task[i].pc # "idle"
         /\ \A j \in 1..(k - 1) : Usable(i, j)
         /\ Unusable(i, k))
        => /\ Len(queried[i]) <= k
           /\ Finished(i) =>
                /\ queried[i] = [j \in 1..k |-> SegmentKey(routes[i], j)]
                /\ task[i].outcome = "discarded"
                /\ Cardinality(RecordsOf(i, resultsFile.data))
                     = Cardinality(RecordsOf(i, resultsAtStart))

\* C5 witness: a route discarded at its second segment after two queries.
EarlyTerminationWitness ==
    \E i \in RouteIds :
        /\ Finished(i)
        /\ task[i].outcome = "discarded"
        /\ Usable(i, 1)
        /\ Unusable(i, 2)
        /\ Len(queried[i]) = 2

RECURSIVE SumOfParsedPrices(_)
SumOfParsedPrices(flights) ==
    IF flights = << >> THEN 0
    ELSE MinKey(Head(flights).flight) + SumOfParsedPrices(Tail(flights))

\* C6 (as claimed): a route all of whose segments had a valid flight has its
\* result in the results file, tagged complete, with one entry per segment in
\* route order, and a total equal to the sum of the winners' parsed prices
\* (the sentinel for a winner without a price, as the parser has it).
CompleteItinerary ==
    \A i \in RouteIds :
        (Finished(i) /\ \A k \in 1..(NumStops - 1) : Usable(i, k)) =>
            /\ task[i].outcome = "complete"
            /\ \E n \in 1..Len(resultsFile.data) : resultsFile.data[n] = Result(i)
            /\ Result(i).status = "complete_with_all_turkish_flights"
            /\ Len(Result(i).flights) = Len(routes[i]) - 1
            /\ \A k \in 1..Len(Result(i).flights) :
                  /\ Result(i).flights[k].origin = city_to_airport_code(routes[i][k])
                  /\ Result(i).flights[k].destination = city_to_airport_code(routes[i][k + 1])
            /\ Result(i).total_cost_inr = SumOfParsedPrices(Result(i).flights)

Errored == { i \in RouteIds : task[i].outcome = "errored" }
Discarded == { i \in RouteIds : task[i].outcome = "discarded" }

\* C7 (as claimed): once the run's tasks are over, and no route failed outside
\* its queries, the failed counter counts the routes whose query raised and
\* the discarded counter the routes that had no valid flight.
OutcomeTagging ==
    (AllFinished /\ \A i \in RouteIds : task[i].outcome # "failed") =>
        /\ failed_count = Cardinality(Errored)
        /\ discarded_count = Cardinality(Discarded)

\* C8: a route whose query raised makes no further query, adds no record to
\* the results file, ends through the normal return of its task with its
\* signature in the resolved set and in the progress file, and does not keep
\* the other routes from being processed: while tasks are left some thread
\* can step, and when the run is over every submitted route has an outcome
\* and is resolved.
ErrorRecovered ==
    \A i \in Errored :
        /\ Len(queried[i]) = task[i].seg
        /\ AnswerTo(i, task[i].seg) = "raise"
        /\ Cardinality(RecordsOf(i, resultsFile.data)) = Cardinality(RecordsOf(i, resultsAtStart))
        /\ task[i].pc \in {"save_progress", "save_progress_write", "returned_none", "done"}
        /\ task[i].pc \in {"returned_none", "done"} =>
              /\ Signature(i) \in completed_routes
              /\ JsonSignature(i) \in progressFile.completed_routes
        /\ ~AllFinished => \E j \in RouteIds : CanStep(j)
        /\ mainPc \in {"done", "stored"} =>
              \A j \in Dispatched :
                  /\ Finished(j)
                  /\ task[j].outcome \in {"complete", "discarded", "errored", "failed"}
                  /\ Signature(j) \in completed_routes

\* C8 witness: a run is over in which one route's query raised and another
\* route completed.
ErrorRecoveredWitness ==
    /\ mainPc = "done"
    /\ \E i \in Errored : Finished(i)
    /\ \E j \in RouteIds : Finished(j) /\ task[j].outcome = "complete"

CountIn(data, r) == Cardinality({ k \in 1..Len(data) : data[k] = r })
CompletedNow == { i \in RouteIds : Finished(i) /\ task[i].outcome = "complete" }

\* C10: once every task of the run is over, the results file holds each
\* record as often as it did at the start plus once for each route that
\* completed with that record, and the progress file holds the signature of
\* every route that ended with an outcome (complete, discarded, errored or
\* failed outside its queries).
NoLostUpdate ==
    AllFinished =>
        /\ \A r \in { resultsFile.data[k] : k \in 1..Len(resultsFile.data) }
                 \cup { resultsAtStart[k] : k \in 1..Len(resultsAtStart) }
                 \cup { Result(i) : i \in CompletedNow } :
              CountIn(resultsFile.data, r)
                = CountIn(resultsAtStart, r) + Cardinality({ i \in CompletedNow : Result(i) = r })
        /\ \A i \in RouteIds :
              (Finished(i) /\ task[i].outcome \in {"complete", "discarded", "errored", "failed"})
                => JsonSignature(i) \in progressFile.completed_routes

\* C10 witness: two routes completed in the same run.
NoLostUpdateWitness ==
    /\ AllFinished
    /\ Cardinality(CompletedNow) >= 2

\* C11 (as claimed): at whatever point the process is interrupted, each file
\* holds a whole document: what it held before the interrupted call or what
\* that call writes, never a cut one.
StoreCallsAtomic ==
    mainPc = "killed" => (~progressFile.torn /\ ~resultsFile.torn)

\* C12: the results file is at all times in non-decreasing order of
\* total_cost_inr, whatever the order in which the workers saved.
ResultsSorted ==
    \A k \in 1..(Len(resultsFile.data) - 1) :
        resultsFile.data[k].total_cost_inr <= resultsFile.data[k + 1].total_cost_inr

\* C12 witness: route 1 has just written its result, route 2 wrote its own
\* earlier, and the record of route 1, the cheaper one, stands first.
ResultsSortedWitness ==
    /\ task[1].pc = "save_progress" /\ task[1].outcome = "complete"
    /\ task[2].pc \in {"update_success", "done"} /\ task[2].outcome = "complete"
    /\ Len(resultsFile.data) = 2
    /\ resultsFile.data[1].route_index = 1
    /\ resultsFile.data[1].total_cost_inr < resultsFile.data[2].total_cost_inr

\* C13: a route and any reordering of its stops (its reversal among them)
\* have the same signature, and two routes whose sets of triples differ have
\* different signatures.
SignaturePermutationInvariant ==
    (probe.op = "route_to_signature" /\ probe.done) =>
        /\ IsPermutation(probe.arg.route, probe.arg.other) => probe.out[1] = probe.out[2]
        /\ probe.arg.other = Reversed(probe.arg.route) => probe.out[1] = probe.out[2]
        /\ TripleSet(probe.arg.route) # TripleSet(probe.arg.other) => probe.out[1] # probe.out[2]

\* C13 witness: the signature of a route of three different stops and of its
\* reversal has been computed.
SignaturePermutationWitness ==
    /\ probe.op = "route_to_signature" /\ probe.done
    /\ Len(probe.arg.route) = 3
    /\ Cardinality(TripleSet(probe.arg.route)) = 3
    /\ probe.arg.other = Reversed(probe.arg.route)
    /\ probe.out[1] = probe.out[2]

\* C14: a search called when no route of the searched prefix is pending
\* leaves the tasks, the queries made, both files, the resolved set and the
\* counters as they are, and returns the content of the results file, the
\* empty list when there is no file.
NothingPendingFrame ==
    [][(/\ mainPc \in {"constructed", "done", "stored"}
        /\ Pending = {}
        /\ mainPc' \in {"running", "done", "stored"})
       => /\ UNCHANGED << max_workers, task, queried, answers, progressFile, resultsFile,
                          completed_routes, completed_count, failed_count, discarded_count >>
          /\ mainPc' = "stored"
          /\ returned' = IF resultsFile.exists THEN resultsFile.data ELSE << >>]_vars

\* C14 witness: a search with nothing pending has returned the two records
\* of the results file.
NothingPendingWitness ==
    /\ mainPc = "stored"
    /\ Pending = {}
    /\ resultsFile.exists
    /\ Len(resultsFile.data) = 2
    /\ returned = resultsFile.data

\* C15: what a search that had pending routes returns is the content of the
\* results file: each record as often as it stood there at the start plus
\* once for each route that completed with it in this run.
ReturnsWholeFile ==
    mainPc = "done" =>
        /\ returned = resultsFile.data
        /\ \A r \in { returned[k] : k \in 1..Len(returned) }
                 \cup { resultsAtStart[k] : k \in 1..Len(resultsAtStart) }
                 \cup { Result(i) : i \in CompletedNow } :
              CountIn(returned, r)
                = CountIn(resultsAtStart, r) + Cardinality({ i \in CompletedNow : Result(i) = r })

\* C15 witness: a search returned a record of an earlier run together with a
\* record of a route that completed in this run.
ReturnsWholeFileWitness ==
    /\ mainPc = "done"
    /\ Len(resultsAtStart) = 1
    /\ CompletedNow # {}
    /\ Len(returned) = 2

\* C16: a process constructed when neither file exists has an empty resolved
\* set, every route of the searched prefix is pending, and its search submits
\* each of them to the pool and no other route.
EmptyStart ==
    [][(mainPc = "constructed" /\ ~progressFile.exists /\ ~resultsFile.exists)
       => /\ completed_routes = {}
          /\ Pending = Truncated
          /\ mainPc' = "running"
          /\ \A i \in RouteIds :
                task'[i].pc = IF i \in Truncated THEN "queued" ELSE "idle"]_vars

\* C16 witness: the search of a process that started without files has
\* submitted the whole prefix.
EmptyStartWitness ==
    /\ mainPc = "running"
    /\ ~progressFile.exists /\ ~resultsFile.exists
    /\ progressAtStart = {} /\ resultsAtStart = << >>
    /\ \A i \in Truncated : task[i].pc = "queued"

\* The airline text holds a comma, a plus sign or a slash.
HasJoinMarker(airline) == \E k \in 1..Len(airline) : airline[k] \in {",", "+", "/"}

\* C17 (as claimed): no offer whose airline holds a comma, a plus sign or a
\* slash is among the valid flights, whatever its other fields are.
RejectsJoinedAirlines ==
    (probe.op = "select" /\ probe.done) =>
        \A k \in 1..Len(probe.out.valid_flights) :
            ~HasJoinMarker(probe.out.valid_flights[k].airline)

\* An offer is among the valid flights.
Accepted(flight) ==
    \E k \in 1..Len(probe.out.valid_flights) : probe.out.valid_flights[k] = flight

\* C18: of the offers whose airline is the bare code TK, one whose route
\* holds IST is accepted, and one whose route and stops do not hold IST and
\* whose text names neither IST nor Istanbul is rejected.
HubAndAlias ==
    (probe.op = "select" /\ probe.done) =>
        \A k \in 1..Len(probe.arg) :
            LET f == probe.arg[k]
            IN f.airline = << "TK" >> =>
                 /\ (\E n \in 1..Len(f.route) : f.route[n] = "IST") => Accepted(f)
                 /\ (/\ \A n \in 1..Len(f.route) : f.route[n] # "IST"
                     /\ \A n \in 1..Len(f.stops) : f.stops[n] # "IST"
                     /\ \A n \in 1..Len(f.text) : f.text[n] \notin {"IST", "Istanbul"})
                       => ~Accepted(f)

\* C18 witness: the filter was given the TK offer via IST and the same offer
\* via DXB, and kept the first alone.
HubAndAliasWitness ==
    /\ probe.op = "select" /\ probe.done
    /\ probe.arg = << Offer(<< "TK" >>, Inr(4500), << "DEL", "IST", "JFK" >>),
                      Offer(<< "TK" >>, Inr(4500), << "DEL", "DXB", "JFK" >>) >>
    /\ probe.out.valid_flights = << Offer(<< "TK" >>, Inr(4500), << "DEL", "IST", "JFK" >>) >>

\* The four predicates of the validator as the claims state them.
PassesFourPredicates(f) ==
    /\ f.airline # << >>
    /\ ~HasJoinMarker(f.airline)
    /\ \E k \in 1..Len(f.airline) : f.airline[k] \in {"Turkish Airlines", "Turkish", "THY", "TK"}
    /\ \E k \in 1..Len(f.route \o f.stops \o f.text) :
          (f.route \o f.stops \o f.text)[k] \in {"IST", "Istanbul"}

\* C19 (as claimed): the offer chosen from a non-empty list passed all four
\* predicates and no valid offer has a smaller parsed price; when no offer
\* is valid none is chosen.
WinnerSelection ==
    (probe.op = "select" /\ probe.done /\ probe.arg # << >>) =>
        IF probe.out.valid_flights = << >> THEN probe.out.cheapest = << >>
        ELSE /\ Len(probe.out.cheapest) = 1
             /\ Accepted(probe.out.cheapest[1])
             /\ PassesFourPredicates(probe.out.cheapest[1])
             /\ \A k \in 1..Len(probe.out.valid_flights) :
                   MinKey(probe.out.cheapest[1]) <= MinKey(probe.out.valid_flights[k])

\* C20: parse_price gives the amount for the rupee sign followed by digits in
\* groups of three ("₹45,230" gives 45230), and 999999 for None, for the empty
\* string, for "N/A", for text without a digit and for text with a character
\* that is no digit, rupee sign, comma or blank; its value is always a number.
ParsePriceValues ==
    (probe.op = "parse_price" /\ probe.done) =>
        /\ probe.out \in Nat
        /\ probe.arg = Text(<< "₹", "4", "5", ",", "2", "3", "0" >>) => probe.out = 45230
        /\ \A n \in PriceAmounts : probe.arg = Inr(n) => probe.out = n
        /\ probe.arg \in { NonePrice, NaPrice, Text(<< >>) } => probe.out = 999999
        /\ (/\ probe.arg.kind = "str"
            /\ \/ \A k \in 1..Len(probe.arg.text) : probe.arg.text[k] \in {"₹", ",", " "}
               \/ \E k \in 1..Len(probe.arg.text) : probe.arg.text[k] \in {"x", "N", "/", "A"})
              => probe.out = 999999

\* C20 witness: parse_price was applied to "₹45,230" and gave 45230.
ParsePriceWitness ==
    /\ probe.op = "parse_price" /\ probe.done
    /\ probe.arg = Text(<< "₹", "4", "5", ",", "2", "3", "0" >>)
    /\ probe.out = 45230

\* The price of an offer is text that parse_price turns into its amount.
Parsable(flight) ==
    /\ flight.price.kind = "str"
    /\ flight.price # NaPrice
    /\ IsFloat(Strip(Remove(Remove(flight.price.text, "₹"), ",")))

\* C21 (as claimed): when the valid offers hold one with a parsable price and
\* one whose price is missing or does not parse, the offer chosen has a
\* parsable price, whatever the parsable amounts are.
PrefersParsedPrice ==
    (probe.op = "select" /\ probe.done) =>
        LET valid_flights == probe.out.valid_flights
        IN (/\ \E k \in 1..Len(valid_flights) : Parsable(valid_flights[k])
            /\ \E k \in 1..Len(valid_flights) : ~Parsable(valid_flights[k]))
              => Parsable(probe.out.cheapest[1])

\* The continents of the stops of a route, and the required ones.
ContinentsOf(route) == { route[k].continent : k \in 1..Len(route) }
RequiredContinentSet == { REQUIRED_CONTINENTS[k] : k \in 1..NUM_CONTINENTS }

\* The planner sampled: the reference data has more combinations than the limit.
Sampled ==
    \/ probe.op = "generate_optimal_routes"
    \/ TotalCombinations(get_continent_city_mapping(probe.arg.data), 1) > CombinationLimit

\* C22: every route returned by generate_all_possible_combinations and by
\* generate_optimal_routes has NUM_CONTINENTS stops (six in the program)
\* whose continents are the required continents, each once.
RoutesCoverContinents ==
    \A n \in 1..Len(probe.out) :
        ~probe.out[n].raised =>
            \A r \in 1..Len(probe.out[n].routes) :
                /\ Len(probe.out[n].routes[r]) = NUM_CONTINENTS
                /\ ContinentsOf(probe.out[n].routes[r]) = RequiredContinentSet

\* C22 witness: generate_all_possible_combinations fell back to sampling and
\* returned several routes, one of them not in the order of the mapping.
RoutesCoverContinentsWitness ==
    /\ probe.op = "generate_all_possible_combinations" /\ probe.out # << >>
    /\ Sampled
    /\ Len(probe.out[1].routes) >= 2
    /\ \E r \in 1..Len(probe.out[1].routes) : probe.out[1].routes[r][1].continent # 1
    /\ \A r \in 1..Len(probe.out[1].routes) :
          ContinentsOf(probe.out[1].routes[r]) = RequiredContinentSet

\* C23 (as claimed): when a required continent has no eligible city after
\* the filtering, a call of either function raises an error.
FailsFastOnEmptyContinent ==
    \A n \in 1..Len(probe.out) :
        (\E c \in 1..NUM_CONTINENTS : get_continent_city_mapping(probe.arg.data)[c] = << >>)
            => probe.out[n].raised

\* C24: two calls on the same reference data return the same routes in the
\* same order, whatever state the random generator was in.
EnumerationDeterministic ==
    Len(probe.out) = 2 =>
        /\ probe.out[1].raised = probe.out[2].raised
        /\ probe.out[1].routes = probe.out[2].routes

\* C24 witness: the second sampling call started from another generator
\* state than the first and returned the same several routes.
EnumerationDeterministicWitness ==
    /\ Len(probe.out) = 2 /\ Sampled
    /\ probe.arg.rng # probe.out[1].rng
    /\ Len(probe.out[1].routes) >= 2
    /\ probe.out[1].routes = probe.out[2].routes

\* The threads between the read and the write of a store call.
InStoreCall == { i \in RouteIds : task[i].pc \in {"save_result_write", "save_progress_write"} }

\* C25: at most one thread is inside the read-modify-write section of
\* save_result_to_file or save_progress, and it is the one holding the lock.
StoreMutualExclusion ==
    /\ Cardinality(InStoreCall) <= 1
    /\ \A i \in InStoreCall : file_lock = i
    /\ file_lock # 0 => file_lock \in InStoreCall

\* C25 witness: one thread is inside save_result_to_file while another one
\* has reached a store call and waits for the lock.
StoreMutualExclusionWitness ==
    \E i, j \in RouteIds :
        /\ i # j
        /\ task[i].pc = "save_result_write" /\ file_lock = i
        /\ task[j].pc \in {"save_result", "save_progress"}

\* C26: a finished route has a terminal outcome and its signature is in the
\* in-memory resolved set; the search returns, and when it does every route
\* it submitted to the pool has finished.
StartedRoutesTerminate ==
    /\ [](\A i \in RouteIds :
            Finished(i) => /\ task[i].outcome \in {"complete", "discarded", "errored", "failed"}
                           /\ Signature(i) \in completed_routes)
    /\ [](mainPc = "done" => \A i \in RouteIds : task[i].pc # "idle" => Finished(i))
    /\ <>(mainPc = "done")

\* C26 witness: a search has returned after routes ended in different ways.
StartedRoutesTerminateWitness ==
    /\ mainPc = "done"
    /\ \E i, j \in RouteIds :
          /\ Finished(i) /\ task[i].outcome = "complete"
          /\ Finished(j) /\ task[j].outcome \in {"discarded", "errored", "failed"}
          /\ {Signature(i), Signature(j)} \subseteq completed_routes

\* C27: the routes a pool thread is working on are never more than
\* max_workers; a route enters the queue only by the submission at the start
\* of a search, as a pending route, and once a thread has taken it it stays
\* with that thread until it is done.
BoundedPool ==
    /\ [](Cardinality(Running) <= max_workers)
    /\ [][\A i \in RouteIds :
            /\ (task[i].pc # "queued" /\ task'[i].pc = "queued")
                  => (mainPc # "running" /\ mainPc' = "running" /\ i \in Pending)
            /\ (i \in Running /\ mainPc' = "running")
                  => (i \in Running' \/ Finished(i)')]_vars

\* C27 witness: every pool thread is busy and a submitted route waits.
BoundedPoolWitness ==
    /\ mainPc = "running"
    /\ Cardinality(Running) = max_workers
    /\ \E i \in RouteIds : task[i].pc = "queued"

\* C28: every record of the results file is tagged complete and has one
\* entry per segment of its route, each with a flight that passed the filter;
\* the file changes only when a route that completed appends its record, and
\* every record it held stays.
OnlyCompleteRetained ==
    /\ [](\A n \in 1..Len(resultsFile.data) :
            LET r == resultsFile.data[n]
            IN /\ r.status = "complete_with_all_turkish_flights"
               /\ Len(r.flights) = Len(r.route) - 1
               /\ \A k \in 1..Len(r.flights) : IsValidFlight(r.flights[k].flight))
    /\ [][resultsFile' # resultsFile =>
            \E i \in RouteIds :
                /\ task[i].outcome = "complete"
                /\ task[i].pc = "save_result_write" /\ task'[i].pc = "save_progress"
                /\ Len(resultsFile'.data) = Len(resultsFile.data) + 1
                /\ \A n \in 1..Len(resultsFile'.data) :
                      LET r == resultsFile'.data[n]
                      IN CountIn(resultsFile'.data, r)
                           = CountIn(resultsFile.data, r) + (IF r = Result(i) THEN 1 ELSE 0)]_vars

\* C28 witness: a search is over in which one route completed and another
\* was discarded, and the file holds the record of the first only.
OnlyCompleteRetainedWitness ==
    /\ mainPc = "done" /\ resultsAtStart = << >>
    /\ Len(resultsFile.data) = 1
    /\ \E i, j \in RouteIds :
          /\ Finished(i) /\ task[i].outcome = "complete" /\ resultsFile.data[1] = Result(i)
          /\ Finished(j) /\ task[j].outcome \in {"discarded", "errored"}

\* C29: a route at a position at or beyond max_routes_to_search is never
\* given to the pool, none of its segments is queried, and its signature is
\* never put in the resolved set.
TruncationRespected ==
    \A i \in RouteIds :
        i > max_routes_to_search =>
            /\ task[i].pc = "idle"
            /\ queried[i] = << >>
            /\ Signature(i) \notin completed_routes

\* C29 witness: a search is over in which every route of the prefix was
\* resolved and a route beyond it was left alone.
TruncationRespectedWitness ==
    /\ mainPc = "done"
    /\ \A i \in Truncated : Finished(i) /\ Signature(i) \in completed_routes
    /\ \E i \in RouteIds :
          i > max_routes_to_search /\ task[i].pc = "idle" /\ Signature(i) \notin completed_routes

\* The outcome the answers to a route's queries lead to.
ExpectedOutcome(i) ==
    IF ~WellFormed(i) THEN "failed"
    ELSE IF \A k \in 1..(NumStops - 1) : Usable(i, k) THEN "complete"
    ELSE LET first == CHOOSE k \in 1..(NumStops - 1) :
                         ~Usable(i, k) /\ \A n \in 1..(k - 1) : Usable(i, n)
         IN IF AnswerTo(i, first) = "raise" THEN "errored" ELSE "discarded"

\* The counters as the outcomes of the finished routes give them.
CountersFollowOutcomes ==
    /\ completed_count = Cardinality({ i \in RouteIds : Finished(i) /\ task[i].outcome = "complete" })
    /\ failed_count = Cardinality({ i \in RouteIds : Finished(i) /\ task[i].outcome = "failed" })
    /\ discarded_count =
          Cardinality({ i \in RouteIds :
                          Finished(i) /\ task[i].outcome \in {"discarded", "errored", "failed"} })

\* C30: with file calls of the store failing, a finished route has the
\* outcome its answers lead to and its signature is in the resolved set in
\* memory; the counters are what the outcomes give, as they are without a
\* failure; and the lock is held only by a thread inside a store call, so it
\* is free again when that call has returned.
FailureContained ==
    /\ \A i \in RouteIds :
          Finished(i) => /\ task[i].outcome = ExpectedOutcome(i)
                         /\ Signature(i) \in completed_routes
    /\ AllFinished => CountersFollowOutcomes
    /\ file_lock # 0 => file_lock \in InStoreCall

\* C30 witness: a route completed although neither its record nor its
\* signature reached the files, and the lock is free.
FailureContainedWitness ==
    /\ AllFinished /\ mainPc = "running" /\ file_lock = 0
    /\ \E i \in RouteIds :
          /\ Finished(i) /\ task[i].outcome = "complete"
          /\ RecordsOf(i, resultsFile.data) = {}
          /\ JsonSignature(i) \notin progressFile.completed_routes
          /\ Signature(i) \in completed_routes
    /\ completed_count >= 1

\* C31 (as claimed): a resolved set written by save_progress and read back by
\* load_existing_progress in a new process makes is_route_completed true for
\* exactly the routes whose signature was written.
SignatureRoundTrips ==
    (mainPc = "constructed" /\ progressFile.exists /\ ~progressFile.torn) =>
        \A i \in RouteIds :
            is_route_completed(routes[i]) <=> JsonSignature(i) \in progressFile.completed_routes

\* C32 (as claimed): in every reachable state, a process kill at any point
\* included, a route that completed and whose signature is in the progress
\* file has a record in the results file.
ResultBeforeResolved ==
    \A i \in RouteIds :
        ( /\ WellFormed(i)
          /\ \A k \in 1..(NumStops - 1) : Usable(i, k)
          /\ JsonSignature(i) \in progressFile.completed_routes )
        => RecordsOf(i, resultsFile.data) # {}

\* C33 (as claimed): after any sequence of runs, kills and restarts, the
\* results file holds at most one record per route signature.
NoDuplicateItineraries ==
    \A i \in RouteIds : Cardinality(RecordsOf(i, resultsFile.data)) <= 1

\* C34 (as claimed): the winner of a segment is a valid offer of smallest
\* parsed price over the offers of every category list of the answer.
WinnerOverAllCategories ==
    (probe.op = "segment" /\ probe.done /\ probe.out.cheapest # << >>) =>
        LET every == probe.arg.top_flights \o probe.arg.all_flights \o probe.arg.other
        IN \A k \in 1..Len(every) :
              IsValidFlight(every[k]) => MinKey(probe.out.cheapest[1]) <= MinKey(every[k])

\* C35 (as claimed): the amount added to the total for a segment is the
\* parsed price by which its winner was chosen as the minimum, a winner
\* without a price field included.
AddedIsSelectionPrice ==
    (probe.op \in {"select", "segment"} /\ probe.done /\ probe.out.cheapest # << >>) =>
        probe.out.price = MinKey(probe.out.cheapest[1])

\* C36: within one route a rate-limit sleep lies between every two
\* consecutive segment queries: when the next query is about to be issued,
\* every query made so far returned a winner and was followed by a sleep;
\* and the query that ends a route as discarded or errored is followed by no
\* sleep.
PerWorkerRateLimit ==
    \A i \in RouteIds :
        /\ task[i].pc = "segment" =>
              /\ task[i].sleeps = Len(queried[i])
              /\ task[i].seg = Len(queried[i]) + 1
              /\ Len(task[i].route_flights) = Len(queried[i])
        /\ task[i].outcome \in {"discarded", "errored"} =>
              task[i].sleeps = Len(queried[i]) - 1
        /\ task[i].outcome = "complete" =>
              task[i].sleeps = Len(queried[i]) /\ Len(queried[i]) = NumStops - 1

\* C36 witness: one route was discarded at its last segment after a sleep
\* for each earlier one, another completed with a sleep after every query.
PerWorkerRateLimitWitness ==
    /\ \E i \in RouteIds :
          /\ task[i].outcome = "discarded"
          /\ Len(queried[i]) = NumStops - 1
          /\ task[i].sleeps = NumStops - 2
    /\ \E i \in RouteIds :
          /\ task[i].outcome = "complete"
          /\ task[i].sleeps = NumStops - 1

\* C37: a task has created its client before its first query, and no two
\* tasks that a pool thread is working on at the same time hold the same
\* client: the client a task queries is the one its own worker created.
OwnClientPerTask ==
    LET running == Running
    IN /\ \A i \in RouteIds :
             (task[i].pc = "segment" \/ Len(queried[i]) > 0) => task[i].scraper = create_scraper(i)
       /\ \A i \in running : task[i].scraper # 0
       /\ \A i, j \in running : i # j => task[i].scraper # task[j].scraper

\* C37 witness: two routes are searched at the same time, each has made a
\* query and is about to make the next one.
OwnClientPerTaskWitness ==
    \E i, j \in RouteIds :
        /\ i # j
        /\ task[i].pc = "segment" /\ Len(queried[i]) > 0
        /\ task[j].pc = "segment" /\ Len(queried[j]) > 0
        /\ task[i].scraper # task[j].scraper

\* The routes of call k in the order in which they were enumerated, before
\* the sort: the cross product, or the unique routes of the attempts.
Enumerated(k) ==
    LET continent_cities == get_continent_city_mapping(probe.arg.data)
        rng == IF k = 1 THEN probe.arg.rng ELSE probe.out[k - 1].rng
    IN IF /\ probe.op = "generate_all_possible_combinations"
          /\ TotalCombinations(continent_cities, 1) <= CombinationLimit
       THEN ProductFrom(continent_cities, EligibleContinents, 1)
       ELSE Unique(Attempts(continent_cities, EligibleContinents, 0, rng).all_routes, {})

\* Where a route stands in a list.
PositionIn(list, route) == CHOOSE n \in 1..Len(list) : list[n] = route

\* C38: the list a planner call returns is in non-increasing order of
\* calculate_route_score, and two routes of equal score stand in the order
\* in which they were enumerated.
RankedByScore ==
    (probe.op \in {"generate_all_possible_combinations", "generate_optimal_routes"}) =>
        \A k \in 1..Len(probe.out) :
            LET out == probe.out[k].routes
                enumerated == Enumerated(k)
            IN \A a, b \in 1..Len(out) :
                  a < b =>
                     /\ calculate_route_score(out[a]) >= calculate_route_score(out[b])
                     /\ calculate_route_score(out[a]) = calculate_route_score(out[b])
                           => PositionIn(enumerated, out[a]) < PositionIn(enumerated, out[b])

\* C38 witness: a call returned routes of two scores and several routes of
\* one score, and the sort moved a route ahead of one enumerated before it.
RankedByScoreWitness ==
    /\ probe.op \in {"generate_all_possible_combinations", "generate_optimal_routes"}
    /\ probe.done
    /\ LET out == probe.out[1].routes
           enumerated == Enumerated(1)
       IN /\ \E a, b \in 1..Len(out) :
                calculate_route_score(out[a]) > calculate_route_score(out[b])
          /\ \E a, b \in 1..Len(out) :
                a < b /\ calculate_route_score(out[a]) = calculate_route_score(out[b])
          /\ \E a, b \in 1..Len(out) :
                a < b /\ PositionIn(enumerated, out[a]) > PositionIn(enumerated, out[b])

\* C39: no two routes a planner call returns have the same signature, on the
\* cross-product path and on the sampling path, and the sampling path returns
\* at most MAX_ROUTES routes.
UniqueSignatures ==
    (probe.op \in {"generate_all_possible_combinations", "generate_optimal_routes"}) =>
        \A k \in 1..Len(probe.out) :
            LET out == probe.out[k].routes
                continent_cities == get_continent_city_mapping(probe.arg.data)
                sampled == \/ probe.op = "generate_optimal_routes"
                           \/ TotalCombinations(continent_cities, 1) > CombinationLimit
            IN /\ \A a, b \in 1..Len(out) : a # b => RouteSig(out[a]) # RouteSig(out[b])
               /\ sampled => Len(out) <= MAX_ROUTES

\* C39 witness: the enumerator returned the whole cross product of several
\* routes, or fell back to sampling, where the attempts repeated routes and
\* gave more unique ones than MAX_ROUTES, and returned MAX_ROUTES of them.
UniqueSignaturesWitness ==
    /\ probe.done
    /\ probe.op = "generate_all_possible_combinations"
    /\ LET total == TotalCombinations(get_continent_city_mapping(probe.arg.data), 1)
       IN \/ total \in 2..CombinationLimit /\ Len(probe.out[1].routes) = total
          \/ /\ total > CombinationLimit
             /\ Len(Enumerated(1)) > MAX_ROUTES
             /\ Len(Attempts(get_continent_city_mapping(probe.arg.data), EligibleContinents,
                             0, probe.arg.rng).all_routes) > Len(Enumerated(1))
             /\ Len(probe.out[1].routes) = MAX_ROUTES

\* Routes whose save_progress call of this process has returned.
PastSaveProgress ==
    { i \in RouteIds : task[i].pc \in {"update_success", "update_failed", "returned_none", "done"} }

\* C40: once a save_progress call has returned and no other one is between
\* its add and its write, the completed_routes list of the progress file has
\* exactly the members of the resolved set in memory, the saved signature
\* among them, each once, and total_completed is the number of its entries.
ProgressFileMatchesMemory ==
    LET saved == PastSaveProgress
    IN (saved # {} /\ \A j \in RouteIds : task[j].pc # "save_progress_write") =>
          /\ ~progressFile.torn /\ progressFile.exists
          /\ progressFile.completed_routes = { JsonOfSignature(s) : s \in completed_routes }
          /\ \A i \in saved : JsonSignature(i) \in progressFile.completed_routes
          /\ Cardinality(progressFile.completed_routes) = Cardinality(completed_routes)
          /\ progressFile.total_completed = Cardinality(progressFile.completed_routes)

\* C40 witness: two save_progress calls of one process have returned, the
\* second one wrote both signatures and a total of two.
ProgressFileMatchesMemoryWitness ==
    /\ Cardinality(PastSaveProgress) = 2
    /\ file_lock = 0
    /\ Cardinality(completed_routes) = 2
    /\ progressFile.total_completed = 2
    /\ \A i \in PastSaveProgress : JsonSignature(i) \in progressFile.completed_routes

====
